---- MODULE Spec2Model ----
(***************************************************************************)
(* Model of k-yomo/line_analyzer, functions/anlyze_line_image.go:          *)
(* the Cloud Function AnalyzeLineImage, its helper getMetaFromObjName and  *)
(* detectWaitingCustomersFromImg.                                          *)
(*                                                                         *)
(* Strings that the code inspects character by character (object names)    *)
(* are sequences of one-character strings.  Confidences are fixed-point:   *)
(* label confidences in hundredths (0.5 is 50), face confidences in tenths.*)
(***************************************************************************)
EXTENDS Integers, Sequences, FiniteSets

\* ------------------------------------------------------------------ bounds
MaxNameLen == 5
MaxLabels == 2
MaxInstances == 3
MaxFaces == 2
NumInvocations == 2

\* --------------------------------------------------------------- variables
VARIABLES
    \* harness of getMetaFromObjName
    objName, parsed,
    \* harness of the label loop of detectWaitingCustomersFromImg
    labelOutput, counted,
    \* AnalyzeLineImage: environment, per-invocation locals, the two tables
    gcpProjectID, event, pc, err, lineObservationID, meta,
    waitingCustomerNum, faceOutput, customers, lo, trace,
    lineObservationRows, waitingCustomerMetaRows

parseVars == <<objName, parsed>>
labelVars == <<labelOutput, counted>>
pipelineVars == <<gcpProjectID, event, pc, err, lineObservationID, meta,
                  waitingCustomerNum, faceOutput, customers, lo, trace,
                  lineObservationRows, waitingCustomerMetaRows>>
harnessVars == <<parseVars, labelVars>>
vars == <<parseVars, labelVars, pipelineVars>>

\* ------------------------------------------------- path and string helpers
Chars == {"s", "7", "0", "-", "_", ".", "/"}
Digits == {"0", "7"}

RECURSIVE SeqsUpTo(_, _)
SeqsUpTo(S, n) ==
    IF n = 0 THEN {<<>>}
    ELSE LET shorter == SeqsUpTo(S, n - 1)
         IN shorter \cup {Append(s, c) : s \in {t \in shorter : Len(t) = n - 1}, c \in S}

\* filepath.Ext: the suffix from the last dot of the last path element.
Ext(path) ==
    LET lastSlash == IF \E i \in 1..Len(path) : path[i] = "/"
                     THEN CHOOSE i \in 1..Len(path) :
                            path[i] = "/" /\ \A j \in (i+1)..Len(path) : path[j] # "/"
                     ELSE 0
        dots == {i \in (lastSlash+1)..Len(path) : path[i] = "."}
    IN IF dots = {} THEN <<>>
       ELSE LET d == CHOOSE i \in dots : \A j \in dots : j <= i
            IN SubSeq(path, d, Len(path))

RECURSIVE StripTrailingSlashes(_)
StripTrailingSlashes(path) ==
    IF Len(path) > 0 /\ path[Len(path)] = "/"
    THEN StripTrailingSlashes(SubSeq(path, 1, Len(path) - 1))
    ELSE path

\* filepath.Base: the last element of the path.
Base(path) ==
    IF path = <<>> THEN <<".">>
    ELSE LET p == StripTrailingSlashes(path)
             slashes == {i \in 1..Len(p) : p[i] = "/"}
             last == IF slashes = {} THEN p
                     ELSE LET i == CHOOSE k \in slashes : \A j \in slashes : j <= k
                          IN SubSeq(p, i + 1, Len(p))
         IN IF last = <<>> THEN <<"/">> ELSE last

\* strings.Split(s, sep) for a one-character separator.
RECURSIVE Split(_, _)
Split(s, sep) ==
    IF \A i \in 1..Len(s) : s[i] # sep THEN <<s>>
    ELSE LET i == CHOOSE k \in 1..Len(s) :
                     s[k] = sep /\ \A j \in 1..(k-1) : s[j] # sep
         IN <<SubSeq(s, 1, i - 1)>> \o Split(SubSeq(s, i + 1, Len(s)), sep)

DigitVal(c) == IF c = "7" THEN 7 ELSE 0

RECURSIVE DecimalValue(_)
DecimalValue(ds) ==
    IF ds = <<>> THEN 0
    ELSE 10 * DecimalValue(SubSeq(ds, 1, Len(ds) - 1)) + DigitVal(ds[Len(ds)])

\* strconv.ParseInt(s, 10, 64): an optional sign, then one or more digits.
\* (The 64-bit range error needs 19 digits, beyond MaxNameLen.)
ParseInt(s) ==
    LET signed == Len(s) > 0 /\ s[1] \in {"+", "-"}
        body == IF signed THEN SubSeq(s, 2, Len(s)) ELSE s
    IN IF body = <<>> \/ \E i \in 1..Len(body) : body[i] \notin Digits
       THEN [ok |-> FALSE, n |-> 0]
       ELSE [ok |-> TRUE,
             n |-> IF signed /\ s[1] = "-" THEN 0 - DecimalValue(body)
                   ELSE DecimalValue(body)]

\* time.Time values: time.Unix(sec, 0).Local() and the zero value time.Time{}.
ZeroTime == [isZero |-> TRUE, unix |-> 0, loc |-> "UTC"]
TimeUnixLocal(sec) == [isZero |-> FALSE, unix |-> sec, loc |-> "Local"]

\* error values: the chain of errors.Wrap messages, outermost first; nil is <<>>.
Nil == <<>>
Wrap(e, msg) == <<msg>> \o e

\* ------------------------------------------------------ getMetaFromObjName
\* outcome "return" carries (shopID, observedAt, err); outcome "panic" is the
\* runtime panic of objMetas[1] on a one-element slice.
getMetaFromObjName(n) ==
    LET name == Base(SubSeq(n, 1, Len(n) - Len(Ext(n))))
        objMetas == Split(name, "_")
        shopID == objMetas[1]
    IN IF Len(objMetas) < 2
       THEN [outcome |-> "panic", shopID |-> shopID, observedAt |-> ZeroTime,
             err |-> <<"index out of range">>]
       ELSE LET unixTime == ParseInt(objMetas[2])
            IN IF ~unixTime.ok
               THEN [outcome |-> "return", shopID |-> shopID, observedAt |-> ZeroTime,
                     err |-> <<"strconv.ParseInt: invalid syntax">>]
               ELSE [outcome |-> "return", shopID |-> shopID,
                     observedAt |-> TimeUnixLocal(unixTime.n), err |-> Nil]

NotCalled == [outcome |-> "not called", shopID |-> <<>>, observedAt |-> ZeroTime, err |-> Nil]

\* object names are not empty
ObjNames == SeqsUpTo(Chars, MaxNameLen) \ {<<>>}

ParseInit == objName \in ObjNames /\ parsed = NotCalled

CallGetMeta ==
    /\ parsed.outcome = "not called"
    /\ parsed' = getMetaFromObjName(objName)
    /\ UNCHANGED objName

\* ------------------------------- the label loop (lines 125-132) and faces
PersonConfidenceThreshold == 50

\* for _, label := range Labels: skip below the threshold, else take the
\* instance count of a label named "Person"; the named result starts at 0.
RECURSIVE CountWaitingPeople(_, _)
CountWaitingPeople(labels, waitingPeopleNum) ==
    IF labels = <<>> THEN waitingPeopleNum
    ELSE LET label == Head(labels)
         IN IF label.Confidence < PersonConfidenceThreshold
            THEN CountWaitingPeople(Tail(labels), waitingPeopleNum)
            ELSE IF label.Name = "Person"
                 THEN CountWaitingPeople(Tail(labels), label.Instances)
                 ELSE CountWaitingPeople(Tail(labels), waitingPeopleNum)


\* Faulty variant: a label exactly at the threshold is skipped as well.
RECURSIVE CountWaitingPeopleAbove(_, _)
CountWaitingPeopleAbove(labels, waitingPeopleNum) ==
    IF labels = <<>> THEN waitingPeopleNum
    ELSE LET label == Head(labels)
         IN IF label.Confidence <= PersonConfidenceThreshold
            THEN CountWaitingPeopleAbove(Tail(labels), waitingPeopleNum)
            ELSE IF label.Name = "Person"
                 THEN CountWaitingPeopleAbove(Tail(labels), label.Instances)
                 ELSE CountWaitingPeopleAbove(Tail(labels), waitingPeopleNum)
WaitingPeopleNumAboveThreshold(labels) == CountWaitingPeopleAbove(labels, 0)

WaitingPeopleNum(labels) == CountWaitingPeople(labels, 0)

LabelNames == {"Person", "person", "Car"}
LabelConfidences == {49, 50, 9000}
Labels == [Name : LabelNames, Confidence : LabelConfidences, Instances : 0..MaxInstances]
LabelOutputs == SeqsUpTo(Labels, MaxLabels)

NotCounted == [called |-> FALSE, waitingPeopleNum |-> 0]

LabelInit == labelOutput \in LabelOutputs /\ counted = NotCounted

RangeLabels ==
    /\ ~counted.called
    /\ counted' = [called |-> TRUE, waitingPeopleNum |-> WaitingPeopleNum(labelOutput)]
    /\ UNCHANGED labelOutput


\* Faulty variants of the face loop: one drops faces of low confidence, one
\* emits a placeholder record when no face was found.
IsConfidentFace(f) == f.Confidence >= 990
NewCustomersConfidentOnly(id, faceDetails) ==
    LET kept == SelectSeq(faceDetails, IsConfidentFace)
    IN [k \in 1..Len(kept) |->
          [LineObservationID |-> id,
           Gender |-> kept[k].Gender,
           GenderConfidence |-> kept[k].GenderConfidence,
           LowestAge |-> kept[k].AgeLow,
           HighestAge |-> kept[k].AgeHigh,
           Confidence |-> kept[k].Confidence]]
NewCustomersPlaceholder(id, faceDetails) ==
    IF faceDetails = <<>>
    THEN <<[LineObservationID |-> id, Gender |-> "", GenderConfidence |-> 0,
            LowestAge |-> 0, HighestAge |-> 0, Confidence |-> 0]>>
    ELSE [k \in 1..Len(faceDetails) |->
            [LineObservationID |-> id,
             Gender |-> faceDetails[k].Gender,
             GenderConfidence |-> faceDetails[k].GenderConfidence,
             LowestAge |-> faceDetails[k].AgeLow,
             HighestAge |-> faceDetails[k].AgeHigh,
             Confidence |-> faceDetails[k].Confidence]]

\* lines 142-153: one waitingCustomerMeta per FaceDetail, in order.
NewCustomers(id, faceDetails) ==
    [k \in 1..Len(faceDetails) |->
        [LineObservationID |-> id,
         Gender |-> faceDetails[k].Gender,
         GenderConfidence |-> faceDetails[k].GenderConfidence,
         LowestAge |-> faceDetails[k].AgeLow,
         HighestAge |-> faceDetails[k].AgeHigh,
         Confidence |-> faceDetails[k].Confidence]]

\* ------------------------------------------------------- AnalyzeLineImage
Invocations == 1..NumInvocations

EventNames == { <<"s", "_", "7", ".", "j">>,      \* "s_7.j"
                <<"s", "7", ".", "j">>,           \* "s7.j": no underscore
                <<"s", "_", "s", ".", "j">> }     \* "s_s.j": non-numeric segment

\* DetectLabels outputs used by the pipeline.
PipelineLabelOutputs ==
    { <<>>,
      <<[Name |-> "Car", Confidence |-> 9000, Instances |-> 1],
        [Name |-> "Person", Confidence |-> 9000, Instances |-> 2]>> }

\* DetectFaces outputs: n faces, pairwise different.
FaceDetail(k) ==
    [Gender |-> IF k % 2 = 1 THEN "Female" ELSE "Male",
     GenderConfidence |-> 982 - k,
     AgeLow |-> 10 + 10 * k, AgeHigh |-> 20 + 10 * k,
     Confidence |-> 991 - k]
FaceOutputs == { [k \in 1..n |-> FaceDetail(k)] : n \in 0..MaxFaces }

\* xid.New(): globally unique; each invocation calls it once.
XidNew(i) == <<"xid", i>>
NoID == <<>>
NoMeta == [shopID |-> <<>>, observedAt |-> ZeroTime]
NoObservation == [ID |-> NoID, ShopID |-> <<>>, WaitingPeopleNum |-> 0,
                  ObservedAt |-> ZeroTime, CreatedAt |-> ZeroTime]
\* time.Now() at line 55 (the clock is not part of any property).
Now(i) == [isZero |-> FALSE, unix |-> i, loc |-> "Local"]

Did(i, op, ok) == trace' = [trace EXCEPT ![i] = Append(@, [op |-> op, ok |-> ok])]
Goto(i, next) == pc' = [pc EXCEPT ![i] = next]
Return(i, e) == pc' = [pc EXCEPT ![i] = "returned"] /\ err' = [err EXCEPT ![i] = e]

PipelineInit ==
    /\ gcpProjectID \in {"", "fast-lane"}
    /\ event \in [Invocations -> EventNames]
    /\ pc = [i \in Invocations |-> "storage.NewClient"]
    /\ err = [i \in Invocations |-> Nil]
    /\ lineObservationID = [i \in Invocations |-> NoID]
    /\ meta = [i \in Invocations |-> NoMeta]
    /\ waitingCustomerNum = [i \in Invocations |-> 0]
    /\ faceOutput = [i \in Invocations |-> <<>>]
    /\ customers = [i \in Invocations |-> <<>>]
    /\ lo = [i \in Invocations |-> NoObservation]
    /\ trace = [i \in Invocations |-> <<>>]
    /\ lineObservationRows = {}
    /\ waitingCustomerMetaRows = {}

\* lines 57-60
NewGcsClient(i) ==
    /\ pc[i] = "storage.NewClient"
    /\ UNCHANGED harnessVars
    /\ \E ok \in BOOLEAN :
         /\ Did(i, "storage.NewClient", ok)
         /\ IF ok THEN Goto(i, "bigquery.NewClient") /\ UNCHANGED err
            ELSE Return(i, Wrap(<<"storage">>, "init gcs client"))
    /\ UNCHANGED <<gcpProjectID, event, lineObservationID, meta, waitingCustomerNum,
                   faceOutput, customers, lo, lineObservationRows, waitingCustomerMetaRows>>

\* lines 61-64 and mustEnv (157-163): log.Fatal ends the process.
NewBqClient(i) ==
    /\ pc[i] = "bigquery.NewClient"
    /\ UNCHANGED harnessVars
    /\ IF gcpProjectID = ""
       THEN Goto(i, "exited") /\ UNCHANGED <<err, trace>>
       ELSE \E ok \in BOOLEAN :
              /\ Did(i, "bigquery.NewClient", ok)
              /\ IF ok THEN Goto(i, "xid.New") /\ UNCHANGED err
                 ELSE Return(i, Wrap(<<"bigquery">>, "init bigquery client failed"))
    /\ UNCHANGED <<gcpProjectID, event, lineObservationID, meta, waitingCustomerNum,
                   faceOutput, customers, lo, lineObservationRows, waitingCustomerMetaRows>>


\* Faulty variant: the name is never parsed, the object is opened right away.
GenerateIDSkipsParse(i) ==
    /\ pc[i] = "xid.New"
    /\ UNCHANGED harnessVars
    /\ lineObservationID' = [lineObservationID EXCEPT ![i] = XidNew(i)]
    /\ Did(i, "xid.New", TRUE)
    /\ Goto(i, "obj.NewReader")
    /\ UNCHANGED <<gcpProjectID, event, err, meta, waitingCustomerNum,
                   faceOutput, customers, lo, lineObservationRows, waitingCustomerMetaRows>>

\* line 67
GenerateID(i) ==
    /\ pc[i] = "xid.New"
    /\ UNCHANGED harnessVars
    /\ lineObservationID' = [lineObservationID EXCEPT ![i] = XidNew(i)]
    /\ Did(i, "xid.New", TRUE)
    /\ Goto(i, "getMetaFromObjName")
    /\ UNCHANGED <<gcpProjectID, event, err, meta, waitingCustomerNum,
                   faceOutput, customers, lo, lineObservationRows, waitingCustomerMetaRows>>

\* lines 68-71
GetMeta(i) ==
    /\ pc[i] = "getMetaFromObjName"
    /\ UNCHANGED harnessVars
    /\ LET r == getMetaFromObjName(event[i])
       IN /\ Did(i, "getMetaFromObjName", r.outcome = "return" /\ r.err = Nil)
          /\ IF r.outcome = "panic"
             THEN Goto(i, "panicked") /\ UNCHANGED <<err, meta>>
             ELSE /\ meta' = [meta EXCEPT ![i] = [shopID |-> r.shopID, observedAt |-> r.observedAt]]
                  /\ IF r.err # Nil
                     THEN Return(i, Wrap(r.err, "get lineObservation meta"))
                     ELSE Goto(i, "obj.NewReader") /\ UNCHANGED err
    /\ UNCHANGED <<gcpProjectID, event, lineObservationID, waitingCustomerNum,
                   faceOutput, customers, lo, lineObservationRows, waitingCustomerMetaRows>>

\* lines 73-76
NewReader(i) ==
    /\ pc[i] = "obj.NewReader"
    /\ UNCHANGED harnessVars
    /\ \E ok \in BOOLEAN :
         /\ Did(i, "obj.NewReader", ok)
         /\ IF ok THEN Goto(i, "session.NewSession") /\ UNCHANGED err
            ELSE Return(i, Wrap(<<"storage">>, "new reader failed"))
    /\ UNCHANGED <<gcpProjectID, event, lineObservationID, meta, waitingCustomerNum,
                   faceOutput, customers, lo, lineObservationRows, waitingCustomerMetaRows>>

\* lines 112-116 (and the wrap of lines 78-80)
NewSession(i) ==
    /\ pc[i] = "session.NewSession"
    /\ UNCHANGED harnessVars
    /\ \E ok \in BOOLEAN :
         /\ Did(i, "session.NewSession", ok)
         /\ IF ok THEN Goto(i, "ioutil.ReadAll") /\ UNCHANGED err
            ELSE Return(i, Wrap(Wrap(<<"aws">>, "new aws session"), "analyze image failed"))
    /\ UNCHANGED <<gcpProjectID, event, lineObservationID, meta, waitingCustomerNum,
                   faceOutput, customers, lo, lineObservationRows, waitingCustomerMetaRows>>


\* Faulty variant: the read error is dropped and detection goes on.
ReadAllIgnoresError(i) ==
    /\ pc[i] = "ioutil.ReadAll"
    /\ UNCHANGED harnessVars
    /\ \E ok \in BOOLEAN :
         /\ Did(i, "ioutil.ReadAll", ok)
         /\ Goto(i, "DetectLabels") /\ UNCHANGED err
    /\ UNCHANGED <<gcpProjectID, event, lineObservationID, meta, waitingCustomerNum,
                   faceOutput, customers, lo, lineObservationRows, waitingCustomerMetaRows>>

\* lines 117-120
ReadAll(i) ==
    /\ pc[i] = "ioutil.ReadAll"
    /\ UNCHANGED harnessVars
    /\ \E ok \in BOOLEAN :
         /\ Did(i, "ioutil.ReadAll", ok)
         /\ IF ok THEN Goto(i, "DetectLabels") /\ UNCHANGED err
            ELSE Return(i, Wrap(Wrap(<<"storage">>, "read img bytes from reader"),
                                "analyze image failed"))
    /\ UNCHANGED <<gcpProjectID, event, lineObservationID, meta, waitingCustomerNum,
                   faceOutput, customers, lo, lineObservationRows, waitingCustomerMetaRows>>


\* Faulty variant: a failed label detection counts as "no labels".
DetectLabelsIgnoresError(i) ==
    /\ pc[i] = "DetectLabels"
    /\ UNCHANGED harnessVars
    /\ \/ /\ Did(i, "DetectLabels", FALSE)
          /\ Goto(i, "DetectFaces")
          /\ UNCHANGED <<err, waitingCustomerNum>>
       \/ \E out \in PipelineLabelOutputs :
            /\ Did(i, "DetectLabels", TRUE)
            /\ waitingCustomerNum' = [waitingCustomerNum EXCEPT ![i] = WaitingPeopleNum(out)]
            /\ Goto(i, "DetectFaces")
            /\ UNCHANGED err
    /\ UNCHANGED <<gcpProjectID, event, lineObservationID, meta,
                   faceOutput, customers, lo, lineObservationRows, waitingCustomerMetaRows>>

\* lines 121-132
DetectLabels(i) ==
    /\ pc[i] = "DetectLabels"
    /\ UNCHANGED harnessVars
    /\ \/ /\ Did(i, "DetectLabels", FALSE)
          /\ Return(i, Wrap(Wrap(<<"rekognition">>, "detect labels"), "analyze image failed"))
          /\ UNCHANGED waitingCustomerNum
       \/ \E out \in PipelineLabelOutputs :
            /\ Did(i, "DetectLabels", TRUE)
            /\ waitingCustomerNum' = [waitingCustomerNum EXCEPT ![i] = WaitingPeopleNum(out)]
            /\ Goto(i, "DetectFaces")
            /\ UNCHANGED err
    /\ UNCHANGED <<gcpProjectID, event, lineObservationID, meta,
                   faceOutput, customers, lo, lineObservationRows, waitingCustomerMetaRows>>

\* lines 134-154; on error the function returns 0, nil (lines 138-140).
DetectFaces(i) ==
    /\ pc[i] = "DetectFaces"
    /\ UNCHANGED harnessVars
    /\ \/ /\ Did(i, "DetectFaces", FALSE)
          /\ Return(i, Wrap(Wrap(<<"rekognition">>, "detect faces"), "analyze image failed"))
          /\ waitingCustomerNum' = [waitingCustomerNum EXCEPT ![i] = 0]
          /\ UNCHANGED <<faceOutput, customers>>
       \/ \E out \in FaceOutputs :
            /\ Did(i, "DetectFaces", TRUE)
            /\ faceOutput' = [faceOutput EXCEPT ![i] = out]
            /\ customers' = [customers EXCEPT ![i] = NewCustomers(lineObservationID[i], out)]
            /\ Goto(i, "lineObservation")
            /\ UNCHANGED <<err, waitingCustomerNum>>
    /\ UNCHANGED <<gcpProjectID, event, lineObservationID, meta,
                   lo, lineObservationRows, waitingCustomerMetaRows>>

\* lines 82-88
NewLineObservation(i) ==
    [ID |-> lineObservationID[i],
     ShopID |-> meta[i].shopID,
     WaitingPeopleNum |-> waitingCustomerNum[i],
     ObservedAt |-> meta[i].observedAt,
     CreatedAt |-> Now(i)]


\* Faulty variant: the observation is built but its Put is left out.
BuildObservationSkipsItsPut(i) ==
    /\ pc[i] = "lineObservation"
    /\ UNCHANGED harnessVars
    /\ lo' = [lo EXCEPT ![i] = NewLineObservation(i)]
    /\ Did(i, "lineObservation", TRUE)
    /\ Goto(i, "Put waitingCustomerMeta")
    /\ UNCHANGED <<gcpProjectID, event, err, lineObservationID, meta, waitingCustomerNum,
                   faceOutput, customers, lineObservationRows, waitingCustomerMetaRows>>

BuildObservation(i) ==
    /\ pc[i] = "lineObservation"
    /\ UNCHANGED harnessVars
    /\ lo' = [lo EXCEPT ![i] = NewLineObservation(i)]
    /\ Did(i, "lineObservation", TRUE)
    /\ Goto(i, "Put lineObservation")
    /\ UNCHANGED <<gcpProjectID, event, err, lineObservationID, meta, waitingCustomerNum,
                   faceOutput, customers, lineObservationRows, waitingCustomerMetaRows>>

\* bigquery Inserter.Put appends rows; a Put that reports an error may or may
\* not have stored its rows (the answer can be lost after the insert).
ObservationRowsOf(i) == {[writer |-> i, idx |-> 1, row |-> lo[i]]}
CustomerRowsOf(i) ==
    {[writer |-> i, idx |-> k, row |-> customers[i][k]] : k \in 1..Len(customers[i])}


\* Faulty variant: the error of the first Put is not returned.
PutObservationFallsThrough(i) ==
    /\ pc[i] = "Put lineObservation"
    /\ UNCHANGED harnessVars
    /\ \/ /\ Did(i, "Put lineObservation", TRUE)
          /\ lineObservationRows' = lineObservationRows \cup ObservationRowsOf(i)
       \/ \E stored \in BOOLEAN :
            /\ Did(i, "Put lineObservation", FALSE)
            /\ lineObservationRows' =
                 IF stored THEN lineObservationRows \cup ObservationRowsOf(i)
                 ELSE lineObservationRows
    /\ Goto(i, "Put waitingCustomerMeta")
    /\ UNCHANGED <<gcpProjectID, event, err, lineObservationID, meta, waitingCustomerNum,
                   faceOutput, customers, lo, waitingCustomerMetaRows>>

\* lines 90-93
PutObservation(i) ==
    /\ pc[i] = "Put lineObservation"
    /\ UNCHANGED harnessVars
    /\ \/ /\ Did(i, "Put lineObservation", TRUE)
          /\ lineObservationRows' = lineObservationRows \cup ObservationRowsOf(i)
          /\ Goto(i, "Put waitingCustomerMeta")
          /\ UNCHANGED err
       \/ \E stored \in BOOLEAN :
            /\ Did(i, "Put lineObservation", FALSE)
            /\ lineObservationRows' =
                 IF stored THEN lineObservationRows \cup ObservationRowsOf(i)
                 ELSE lineObservationRows
            /\ Return(i, Wrap(<<"bigquery">>, "put analyzed lineObservation data"))
    /\ UNCHANGED <<gcpProjectID, event, lineObservationID, meta, waitingCustomerNum,
                   faceOutput, customers, lo, waitingCustomerMetaRows>>


\* Faulty variant: a failed second Put deletes the observation row again.
PutCustomersCompensates(i) ==
    /\ pc[i] = "Put waitingCustomerMeta"
    /\ UNCHANGED harnessVars
    /\ \/ /\ Did(i, "Put waitingCustomerMeta", TRUE)
          /\ waitingCustomerMetaRows' = waitingCustomerMetaRows \cup CustomerRowsOf(i)
          /\ Return(i, Nil)
          /\ UNCHANGED lineObservationRows
       \/ \E stored \in BOOLEAN :
            /\ Did(i, "Put waitingCustomerMeta", FALSE)
            /\ waitingCustomerMetaRows' =
                 IF stored THEN waitingCustomerMetaRows \cup CustomerRowsOf(i)
                 ELSE waitingCustomerMetaRows
            /\ lineObservationRows' = lineObservationRows \ ObservationRowsOf(i)
            /\ Return(i, Wrap(<<"bigquery">>, "load analyzed lineObservation data to bq faile"))
    /\ UNCHANGED <<gcpProjectID, event, lineObservationID, meta, waitingCustomerNum,
                   faceOutput, customers, lo>>

\* lines 94-97
PutCustomers(i) ==
    /\ pc[i] = "Put waitingCustomerMeta"
    /\ UNCHANGED harnessVars
    /\ \/ /\ Did(i, "Put waitingCustomerMeta", TRUE)
          /\ waitingCustomerMetaRows' = waitingCustomerMetaRows \cup CustomerRowsOf(i)
          /\ Return(i, Nil)
       \/ \E stored \in BOOLEAN :
            /\ Did(i, "Put waitingCustomerMeta", FALSE)
            /\ waitingCustomerMetaRows' =
                 IF stored THEN waitingCustomerMetaRows \cup CustomerRowsOf(i)
                 ELSE waitingCustomerMetaRows
            /\ Return(i, Wrap(<<"bigquery">>, "load analyzed lineObservation data to bq faile"))
    /\ UNCHANGED <<gcpProjectID, event, lineObservationID, meta, waitingCustomerNum,
                   faceOutput, customers, lo, lineObservationRows>>

AnalyzeLineImage(i) ==
    \/ NewGcsClient(i)
    \/ NewBqClient(i)
    \/ GenerateID(i)
    \/ GetMeta(i)
    \/ NewReader(i)
    \/ NewSession(i)
    \/ ReadAll(i)
    \/ DetectLabels(i)
    \/ DetectFaces(i)
    \/ BuildObservation(i)
    \/ PutObservation(i)
    \/ PutCustomers(i)

\* ---------------------------------------------------------- specifications
\* The variables of the parts a specification does not exercise stay parked.
ParseParked == objName = <<>> /\ parsed = NotCalled
LabelParked == labelOutput = <<>> /\ counted = NotCounted
PipelineParked ==
    /\ gcpProjectID = ""
    /\ event = <<>> /\ pc = <<>> /\ err = <<>> /\ lineObservationID = <<>>
    /\ meta = <<>> /\ waitingCustomerNum = <<>> /\ faceOutput = <<>>
    /\ customers = <<>> /\ lo = <<>> /\ trace = <<>>
    /\ lineObservationRows = {} /\ waitingCustomerMetaRows = {}

Init == PipelineInit /\ ParseParked /\ LabelParked
Next == \E i \in Invocations : AnalyzeLineImage(i)
Spec == Init /\ [][Next]_vars

InitParse == ParseInit /\ LabelParked /\ PipelineParked
NextParse == CallGetMeta /\ UNCHANGED <<labelVars, pipelineVars>>
SpecParse == InitParse /\ [][NextParse]_vars

InitLabels == LabelInit /\ ParseParked /\ PipelineParked
NextLabels == RangeLabels /\ UNCHANGED <<parseVars, pipelineVars>>
SpecLabels == InitLabels /\ [][NextLabels]_vars

\* ================================================================ properties
Attempted(i, op) == \E k \in 1..Len(trace[i]) : trace[i][k].op = op
Succeeded(i, op) == \E k \in 1..Len(trace[i]) : trace[i][k].op = op /\ trace[i][k].ok
Failed(i, op) == \E k \in 1..Len(trace[i]) : trace[i][k].op = op /\ ~trace[i][k].ok
Before(i, a, b) ==
    \E k, l \in 1..Len(trace[i]) : k < l /\ trace[i][k].op = a /\ trace[i][l].op = b
OpsOf(i) == [k \in 1..Len(trace[i]) |-> trace[i][k].op]
RowsBy(table, i) == {r \in table : r.writer = i}
IsPrefix(s, t) == Len(s) <= Len(t) /\ s = SubSeq(t, 1, Len(s))

\* --- C1 -------------------------------------------------------------------
\* The naming convention, stated without the parser: <shop>_<epoch>.<ext>,
\* shop free of "_" and of directory separators, epoch an optionally signed
\* run of decimal digits, ext free of "." and "/".
IsBase10Integer(s) ==
    \E b \in 1..2 :
        /\ Len(s) >= b
        /\ (b = 2 => s[1] \in {"+", "-"})
        /\ \A k \in b..Len(s) : s[k] \in Digits
RECURSIVE Pow10(_)
Pow10(n) == IF n = 0 THEN 1 ELSE 10 * Pow10(n - 1)
RECURSIVE PositionalSum(_, _)
PositionalSum(s, k) ==
    IF k > Len(s) THEN 0
    ELSE (IF s[k] \in Digits THEN DigitVal(s[k]) * Pow10(Len(s) - k) ELSE 0)
         + PositionalSum(s, k + 1)
IntegerValue(s) ==
    IF Len(s) > 0 /\ s[1] = "-" THEN 0 - PositionalSum(s, 2) ELSE PositionalSum(s, 1)
Conventions(n) ==
    { <<u, d>> \in (1..Len(n)) \X (1..Len(n)) :
        /\ u < d /\ n[u] = "_" /\ n[d] = "."
        /\ \A k \in 1..(u-1) : n[k] \notin {"_", "/"}
        /\ IsBase10Integer(SubSeq(n, u + 1, d - 1))
        /\ \A k \in (d+1)..Len(n) : n[k] \notin {".", "/"} }
BaseName(n) == Base(SubSeq(n, 1, Len(n) - Len(Ext(n))))
Malformed(n) ==
    LET segs == Split(BaseName(n), "_")
    IN Len(segs) < 2 \/ ~IsBase10Integer(segs[2])

\* C1: every name of the convention parses to (shop, time of epoch, no error),
\* and every name whose basename has no underscore or whose second segment is
\* not a base-10 integer gets an error value (not a panic) and no observedAt.
C1_ParseCharacterisesConvention ==
    parsed.outcome # "not called" =>
        /\ \A c \in Conventions(objName) :
              /\ parsed.outcome = "return"
              /\ parsed.err = Nil
              /\ parsed.shopID = SubSeq(objName, 1, c[1] - 1)
              /\ parsed.observedAt =
                   TimeUnixLocal(IntegerValue(SubSeq(objName, c[1] + 1, c[2] - 1)))
        /\ Malformed(objName) =>
              /\ parsed.outcome = "return"
              /\ parsed.err # Nil
              /\ parsed.observedAt = ZeroTime

\* What remains of C1 once the panic is set aside: names of the convention
\* parse, names with a non-integer second segment get an error value, and the
\* only names that panic are those whose basename has no underscore.
C1_HoldsExceptForPanic ==
    parsed.outcome # "not called" =>
        /\ \A c \in Conventions(objName) :
              /\ parsed.outcome = "return"
              /\ parsed.err = Nil
              /\ parsed.shopID = SubSeq(objName, 1, c[1] - 1)
              /\ parsed.observedAt =
                   TimeUnixLocal(IntegerValue(SubSeq(objName, c[1] + 1, c[2] - 1)))
        /\ Malformed(objName) =>
              \/ /\ parsed.outcome = "return"
                 /\ parsed.err # Nil
                 /\ parsed.observedAt = ZeroTime
              \/ /\ parsed.outcome = "panic"
                 /\ Len(Split(BaseName(objName), "_")) < 2
        /\ parsed.outcome = "panic" => Len(Split(BaseName(objName), "_")) < 2

\* --- C2 -------------------------------------------------------------------
\* C2: when at most one label is named exactly "Person", waitingPeopleNum is
\* that label's instance count if its confidence is at least 0.5, and 0 if it
\* is absent or below 0.5; labels of other names do not enter the result.
C2_WaitingPeopleFromPersonLabel ==
    counted.called =>
        LET persons == {k \in 1..Len(labelOutput) : labelOutput[k].Name = "Person"}
        IN Cardinality(persons) <= 1 =>
             counted.waitingPeopleNum =
                IF \E k \in persons : labelOutput[k].Confidence >= PersonConfidenceThreshold
                THEN labelOutput[CHOOSE k \in persons : TRUE].Instances
                ELSE 0

C2_Witness ==
    /\ counted.called
    /\ labelOutput = <<[Name |-> "Car", Confidence |-> 9000, Instances |-> 2],
                       [Name |-> "Person", Confidence |-> 50, Instances |-> 3]>>
    /\ counted.waitingPeopleNum = 3

\* --- C3 -------------------------------------------------------------------
\* C3: N detected faces give exactly N waitingCustomerMeta records, the k-th
\* built from the k-th face, each carrying the id of the lineObservation built
\* in the same invocation.
C3_OneMetaPerFace ==
    \A i \in Invocations :
        Succeeded(i, "DetectFaces") =>
            /\ Len(customers[i]) = Len(faceOutput[i])
            /\ \A k \in 1..Len(faceOutput[i]) :
                  /\ k \in DOMAIN customers[i]
                  /\ customers[i][k].Gender = faceOutput[i][k].Gender
                  /\ customers[i][k].GenderConfidence = faceOutput[i][k].GenderConfidence
                  /\ customers[i][k].LowestAge = faceOutput[i][k].AgeLow
                  /\ customers[i][k].HighestAge = faceOutput[i][k].AgeHigh
                  /\ customers[i][k].Confidence = faceOutput[i][k].Confidence
            /\ Attempted(i, "lineObservation") =>
                  /\ lo[i].ID # NoID
                  /\ \A k \in 1..Len(customers[i]) :
                        customers[i][k].LineObservationID = lo[i].ID

C3_Witness ==
    \E i \in Invocations :
        /\ Attempted(i, "lineObservation")
        /\ Len(faceOutput[i]) >= 2
        /\ Len(customers[i]) = Len(faceOutput[i])

\* --- C4 -------------------------------------------------------------------
\* C4: after a failed write to line_observation the invocation never attempts
\* the write to waiting_customer_meta, has stored no meta row, and has
\* returned the store-stage error.
C4_ObservationWriteFailureStops ==
    \A i \in Invocations :
        Failed(i, "Put lineObservation") =>
            /\ ~Attempted(i, "Put waitingCustomerMeta")
            /\ RowsBy(waitingCustomerMetaRows, i) = {}
            /\ pc[i] = "returned"
            /\ err[i] = <<"put analyzed lineObservation data", "bigquery">>

C4_Witness ==
    \E i \in Invocations :
        /\ Failed(i, "Put lineObservation")
        /\ pc[i] = "returned"
        /\ Len(customers[i]) > 0

\* --- C5 -------------------------------------------------------------------
\* C5: after a failure to open or to read the object, the invocation attempts
\* neither detection call nor any store write, and has returned an error.
C5_FetchFailureStops ==
    \A i \in Invocations :
        (Failed(i, "obj.NewReader") \/ Failed(i, "ioutil.ReadAll")) =>
            /\ ~Attempted(i, "DetectLabels")
            /\ ~Attempted(i, "DetectFaces")
            /\ ~Attempted(i, "Put lineObservation")
            /\ ~Attempted(i, "Put waitingCustomerMeta")
            /\ RowsBy(lineObservationRows, i) = {}
            /\ RowsBy(waitingCustomerMetaRows, i) = {}
            /\ pc[i] = "returned"
            /\ err[i] # Nil

C5_Witness ==
    \E i, j \in Invocations :
        /\ Failed(i, "obj.NewReader") /\ pc[i] = "returned"
        /\ Failed(j, "ioutil.ReadAll") /\ pc[j] = "returned"

\* --- C6 -------------------------------------------------------------------
\* C6: when the observation write succeeded and the meta write failed, the
\* invocation has returned an error, its observation row is still stored, and
\* the failed write is the last thing the invocation did.
C6_MetaWriteFailureKeepsObservation ==
    \A i \in Invocations :
        (Succeeded(i, "Put lineObservation") /\ Failed(i, "Put waitingCustomerMeta")) =>
            /\ pc[i] = "returned"
            /\ err[i] # Nil
            /\ ObservationRowsOf(i) \subseteq lineObservationRows
            /\ trace[i][Len(trace[i])].op = "Put waitingCustomerMeta"

C6_Witness ==
    \E i \in Invocations :
        /\ Succeeded(i, "Put lineObservation")
        /\ Failed(i, "Put waitingCustomerMeta")
        /\ ObservationRowsOf(i) \subseteq lineObservationRows

\* --- C7 -------------------------------------------------------------------
\* C7: a failed label detection is never followed by face detection; after a
\* failure of either detection call the invocation has stored no row in either
\* table and has returned an error wrapping the failing call.
C7_DetectionFailureAborts ==
    \A i \in Invocations :
        /\ Failed(i, "DetectLabels") => ~Attempted(i, "DetectFaces")
        /\ \A call \in {"DetectLabels", "DetectFaces"} :
              Failed(i, call) =>
                  /\ RowsBy(lineObservationRows, i) = {}
                  /\ RowsBy(waitingCustomerMetaRows, i) = {}
                  /\ ~Attempted(i, "Put lineObservation")
                  /\ pc[i] = "returned"
                  /\ err[i] = <<"analyze image failed",
                                IF call = "DetectLabels" THEN "detect labels"
                                ELSE "detect faces",
                                "rekognition">>

C7_Witness ==
    \E i, j \in Invocations :
        /\ Failed(i, "DetectLabels") /\ pc[i] = "returned"
        /\ Failed(j, "DetectFaces") /\ pc[j] = "returned"

\* --- C8 -------------------------------------------------------------------
ClaimedOrder ==
    <<"storage.NewClient", "bigquery.NewClient", "obj.NewReader", "ioutil.ReadAll",
      "getMetaFromObjName", "xid.New", "DetectLabels", "DetectFaces",
      "lineObservation", "Put lineObservation", "Put waitingCustomerMeta">>
CodeOrder ==
    <<"storage.NewClient", "bigquery.NewClient", "xid.New", "getMetaFromObjName",
      "obj.NewReader", "session.NewSession", "ioutil.ReadAll", "DetectLabels",
      "DetectFaces", "lineObservation", "Put lineObservation",
      "Put waitingCustomerMeta">>
PosIn(order, op) == CHOOSE k \in 1..Len(order) : order[k] = op
InOrder(i, order) ==
    \A k, l \in 1..Len(trace[i]) :
        (/\ k < l
         /\ \E p \in 1..Len(order) : order[p] = trace[i][k].op
         /\ \E p \in 1..Len(order) : order[p] = trace[i][l].op)
        => PosIn(order, trace[i][k].op) < PosIn(order, trace[i][l].op)

\* C8 as claimed: clients, read bytes, parse the name, generate the id,
\* detect, assemble, persist; the bytes are read before the name is parsed and
\* the id is generated only after parsing succeeded.
C8_ClaimedStepOrder ==
    \A i \in Invocations :
        /\ InOrder(i, ClaimedOrder)
        /\ Attempted(i, "getMetaFromObjName") => Before(i, "ioutil.ReadAll", "getMetaFromObjName")
        /\ Attempted(i, "xid.New") =>
              /\ Succeeded(i, "getMetaFromObjName")
              /\ Before(i, "getMetaFromObjName", "xid.New")

\* C8 as amended: clients, generate the id, parse the name, open and read the
\* object, detect, assemble, persist; every invocation has done a prefix of
\* that sequence, the id is generated before the name is parsed, and the
\* object is opened and read only after parsing succeeded.
C8_CodeStepOrder ==
    \A i \in Invocations :
        /\ IsPrefix(OpsOf(i), CodeOrder)
        /\ Attempted(i, "getMetaFromObjName") => Before(i, "xid.New", "getMetaFromObjName")
        /\ Attempted(i, "obj.NewReader") => Succeeded(i, "getMetaFromObjName")
        /\ Attempted(i, "ioutil.ReadAll") => Before(i, "getMetaFromObjName", "ioutil.ReadAll")

C8_Witness ==
    \E i \in Invocations :
        /\ pc[i] = "returned" /\ err[i] = Nil
        /\ OpsOf(i) = CodeOrder

\* --- C9 -------------------------------------------------------------------
\* C9: an invocation in which every step succeeded and face detection found
\* no faces has returned nil, stored exactly one observation row and stored
\* no meta row.
C9_NoFacesPersists ==
    \A i \in Invocations :
        (/\ pc[i] = "returned"
         /\ faceOutput[i] = <<>>
         /\ \A k \in 1..Len(CodeOrder) : Succeeded(i, CodeOrder[k])) =>
            /\ err[i] = Nil
            /\ Cardinality(RowsBy(lineObservationRows, i)) = 1
            /\ RowsBy(waitingCustomerMetaRows, i) = {}

C9_Witness ==
    \E i \in Invocations :
        /\ pc[i] = "returned" /\ err[i] = Nil
        /\ faceOutput[i] = <<>>
        /\ Succeeded(i, "Put waitingCustomerMeta")
        /\ Cardinality(RowsBy(lineObservationRows, i)) = 1

\* --- C10 ------------------------------------------------------------------
\* C10: in every reachable store state each meta row references exactly one
\* stored observation row, and that row was written by the same invocation.
C10_ReferentialIntegrity ==
    \A m \in waitingCustomerMetaRows :
        LET parents == {o \in lineObservationRows : o.row.ID = m.row.LineObservationID}
        IN /\ Cardinality(parents) = 1
           /\ \A o \in parents : o.writer = m.writer

C10_Witness ==
    \E i, j \in Invocations :
        /\ i # j
        /\ RowsBy(waitingCustomerMetaRows, j) # {}
        /\ pc[i] = "Put waitingCustomerMeta"
        /\ Len(customers[i]) > 0
        /\ RowsBy(lineObservationRows, i) # {}
====
